---- MODULE Spec2Model ----
(***************************************************************************)
(* Model of salesforce_pipeline.py: the class SalesforceDataFetcher and    *)
(* its entry point fetch_and_save_data, run up to MaxRuns times on one     *)
(* instance.  The collaborators (the config file, simple_salesforce, the   *)
(* file system) answer each call the code makes with one of a small set of *)
(* responses.                                                              *)
(***************************************************************************)
EXTENDS Integers, Sequences, FiniteSets, TLC

\* Number of fetch_and_save_data calls made on the instance in one behaviour.
MaxRuns == 2

(***************************************************************************)
(* Python values.  Every value carries its type in the field t.            *)
(***************************************************************************)
PyNone == [t |-> "None"]
PyStr(s) == [t |-> "str", s |-> s]
PyBool(b) == [t |-> "bool", b |-> b]
PyList(l) == [t |-> "list", l |-> l]
PyDict(d) == [t |-> "dict", d |-> d]
\* The handle simple_salesforce.Salesforce(...) returns; id tells handles apart.
SalesforceHandle(id) == [t |-> "Salesforce", id |-> id]
\* A pandas DataFrame: its column names and its rows (one value per column).
DataFrame(columns, rows) == [t |-> "DataFrame", columns |-> columns, rows |-> rows]

\* Python truthiness, as `if x:` and `not x` use it.
Truthy(v) ==
    CASE v.t = "None" -> FALSE
      [] v.t = "str" -> v.s # ""
      [] v.t = "bool" -> v.b
      [] v.t = "list" -> v.l # <<>>
      [] v.t = "dict" -> DOMAIN v.d # {}
      [] OTHER -> TRUE

\* An attribute that __init__ does not create (uname, pwd, sftoken).
Unset == [t |-> "unset"]

(***************************************************************************)
(* Outcomes of an expression or a collaborator call: a value or a raised   *)
(* exception with the text str(e) gives.                                   *)
(***************************************************************************)
Ok(v) == [t |-> "ok", val |-> v]
Raise(exc, text) == [t |-> "raise", exc |-> exc, text |-> text]
\* The response to a call the run has not made.
NotCalled == [t |-> "NotCalled"]

\* v[k] in Python: a dict lookup, a KeyError for a missing key (str(e) is the
\* repr of the key), a TypeError for a value that is no mapping.
Subscript(v, k) ==
    CASE v.t = "dict" ->
            IF k \in DOMAIN v.d THEN Ok(v.d[k])
            ELSE Raise("KeyError", "'" \o k \o "'")
      [] v.t = "None" -> Raise("TypeError", "'NoneType' object is not subscriptable")
      [] v.t = "str" -> Raise("TypeError", "string indices must be integers")
      [] OTHER -> Raise("TypeError", "object is not subscriptable")

\* sep.join(l) for a list of strings.
RECURSIVE Join(_, _)
Join(l, sep) ==
    IF l = <<>> THEN ""
    ELSE IF Len(l) = 1 THEN l[1]
    ELSE l[1] \o sep \o Join(Tail(l), sep)

\* TRUE iff sub occurs in s (Python: sub in s).
Contains(s, sub) ==
    \E i \in 1..(Len(s) - Len(sub) + 1) : SubSeq(s, i, i + Len(sub) - 1) = sub

\* TRUE iff s starts with pre.
StartsWith(s, pre) == Len(s) >= Len(pre) /\ SubSeq(s, 1, Len(pre)) = pre

(***************************************************************************)
(* The instance after SalesforceDataFetcher().                             *)
(***************************************************************************)
NewFetcher ==
    [config_path |-> "config.yml",
     domain      |-> "test",
     sf          |-> PyNone,
     table_name  |-> PyNone,
     file_name   |-> PyNone,
     fields      |-> PyList(<<>>),
     uname       |-> Unset,
     pwd         |-> Unset,
     sftoken     |-> Unset]

(***************************************************************************)
(* The execution context a method runs in: the instance, the file system   *)
(* (path -> content), the next handle id the service hands out, the        *)
(* responses of the collaborators, the calls made so far and, when the     *)
(* code reaches a call whose response is not drawn yet, the name of it.    *)
(***************************************************************************)
NoFiles == [p \in {} |-> ""]

Ctx(s, fs, nh, env) ==
    [self |-> s, files |-> fs, nextHandle |-> nh, env |-> env,
     calls |-> <<>>, blocked |-> ""]

\* One call on a collaborator: op, the id of the handle it is made on or that
\* it returns (0: none), its argument and whether it returned.
Call(op, handle, arg, ok) == [op |-> op, handle |-> handle, arg |-> arg, ok |-> ok]

Log(c, call) == [c EXCEPT !.calls = Append(@, call)]

Block(c, what) == [c |-> [c EXCEPT !.blocked = IF @ = "" THEN what ELSE @], ret |-> PyNone]

Return(c, v) == [c |-> c, ret |-> v]

(***************************************************************************)
(* load_credentials: reads and parses the config file, then copies the     *)
(* three credentials one after the other; the first statement that raises  *)
(* decides the error string.  Returns None when all three were copied.     *)
(***************************************************************************)
CredentialError(e) ==
    CASE e.exc = "FileNotFoundError" -> PyStr("Error: Config file not found: " \o e.text)
      [] e.exc = "YAMLError" -> PyStr("Error: YAML parsing error: " \o e.text)
      [] e.exc = "KeyError" -> PyStr("Error: Missing required key in config file: " \o e.text)
      [] OTHER -> PyStr("Error loading credentials: " \o e.text)

\* config['salesforce'][key]
Credential(config, key) ==
    LET g == Subscript(config, "salesforce")
    IN  IF g.t = "raise" THEN g ELSE Subscript(g.val, key)

load_credentials(c) ==
    LET resp == c.env.config
        c1 == Log(c, Call("read_config", 0, c.self.config_path, resp.t = "ok"))
        u == Credential(resp.doc, "uname")
        p == Credential(resp.doc, "pwd")
        k == Credential(resp.doc, "sftoken")
        s1 == [c1.self EXCEPT !.uname = u.val]
        s2 == [s1 EXCEPT !.pwd = p.val]
        s3 == [s2 EXCEPT !.sftoken = k.val]
    IN  IF resp = NotCalled THEN Block(c, "config")
        ELSE IF resp.t = "raise" THEN Return(c1, CredentialError(resp))
        ELSE IF u.t = "raise" THEN Return(c1, CredentialError(u))
        ELSE IF p.t = "raise" THEN Return([c1 EXCEPT !.self = s1], CredentialError(p))
        ELSE IF k.t = "raise" THEN Return([c1 EXCEPT !.self = s2], CredentialError(k))
        ELSE Return([c1 EXCEPT !.self = s3], PyNone)

(***************************************************************************)
(* connect_to_salesforce: one authenticate call with the loaded            *)
(* credentials.  Returns True, or the error string when anything raises.   *)
(***************************************************************************)
ConnectError(text) ==
    PyStr("Error connecting to Salesforce please check if you have valid credentials: " \o text)

connect_to_salesforce(c) ==
    LET resp == c.env.auth
        self == c.self
        missing == IF self.uname = Unset THEN "uname"
                   ELSE IF self.pwd = Unset THEN "pwd" ELSE "sftoken"
    IN  IF Unset \in {self.uname, self.pwd, self.sftoken}
        THEN Return(c, ConnectError("'SalesforceDataFetcher' object has no attribute '"
                                        \o missing \o "'"))
        ELSE IF resp = NotCalled THEN Block(c, "auth")
        ELSE IF resp.t = "raise"
        THEN Return(Log(c, Call("authenticate", 0, self.domain, FALSE)), ConnectError(resp.text))
        ELSE Return(Log([c EXCEPT !.self.sf = SalesforceHandle(c.nextHandle),
                                  !.nextHandle = @ + 1],
                        Call("authenticate", c.nextHandle, self.domain, TRUE)),
                    PyBool(TRUE))

(***************************************************************************)
(* A method call on self.sf.  When self.sf is None the attribute lookup     *)
(* raises AttributeError and nothing reaches the service: the attempt is   *)
(* logged with handle 0.  Otherwise the call is logged with the id of the  *)
(* handle it is made on.                                                   *)
(***************************************************************************)
RemoteCall(c, op, arg) ==
    LET sf == c.self.sf
        resp == c.env[op]
    IN  IF sf.t = "None"
        THEN [c |-> Log(c, Call(op, 0, arg, FALSE)),
              out |-> Raise("AttributeError", "'NoneType' object has no attribute '"
                                \o (IF op = "describe" THEN "__getattr__" ELSE op) \o "'")]
        ELSE IF resp = NotCalled
        THEN [c |-> Block(c, op).c, out |-> Raise("NotCalled", "")]
        ELSE [c |-> Log(c, Call(op, sf.id, arg, resp.t = "ok")), out |-> resp]

(***************************************************************************)
(* pandas: DataFrame(records), drop(labels, axis=1, errors='ignore') and   *)
(* to_csv(index=False).  A record is a sequence of <<key, value>> pairs in *)
(* the order the service sent them.                                        *)
(***************************************************************************)
RECURSIVE Keys(_)
Keys(rec) == IF rec = <<>> THEN <<>> ELSE <<rec[1][1]>> \o Keys(Tail(rec))

InSeq(x, l) == \E i \in 1..Len(l) : l[i] = x

RECURSIVE AppendNew(_, _)
AppendNew(cols, ks) ==
    IF ks = <<>> THEN cols
    ELSE AppendNew(IF InSeq(ks[1], cols) THEN cols ELSE Append(cols, ks[1]), Tail(ks))

RECURSIVE Columns(_)
Columns(records) ==
    IF records = <<>> THEN <<>>
    ELSE AppendNew(<<>>, Keys(records[1]) \o Columns(Tail(records)))

\* The value of column col in a record; a missing value (NaN) prints as "".
ValueOf(rec, col) ==
    IF \E i \in 1..Len(rec) : rec[i][1] = col
    THEN rec[CHOOSE i \in 1..Len(rec) : rec[i][1] = col][2]
    ELSE ""

FromRecords(records) ==
    LET cols == Columns(records)
    IN  DataFrame(cols, [r \in 1..Len(records) |->
                            [j \in 1..Len(cols) |-> ValueOf(records[r], cols[j])]])

Drop(df, label) ==
    LET keep == SelectSeq([j \in 1..Len(df.columns) |-> j], LAMBDA j : df.columns[j] # label)
    IN  DataFrame([j \in 1..Len(keep) |-> df.columns[keep[j]]],
                  [r \in 1..Len(df.rows) |-> [j \in 1..Len(keep) |-> df.rows[r][keep[j]]]])

RECURSIVE Lines(_)
Lines(rows) == IF rows = <<>> THEN "" ELSE Join(rows[1], ",") \o "\n" \o Lines(Tail(rows))

ToCsv(df) == Join(df.columns, ",") \o "\n" \o Lines(df.rows)

(***************************************************************************)
(* fetch_data: resolves the field list (describe when self.fields is       *)
(* empty), builds the SOQL string and runs it.  Returns a DataFrame or an  *)
(* error string.                                                           *)
(***************************************************************************)
Query(fields, table) == "SELECT " \o Join(fields, ", ") \o " FROM " \o table

\* fetch_data that builds the query from self.fields even after describe.
fetch_data_IgnoresDescribe(c) ==
    LET self == c.self
        table == self.table_name.s
        d == RemoteCall(c, "describe", table)
        described == ~Truthy(self.fields)
        c1 == IF described THEN d.c ELSE c
        query == Query(self.fields.l, table)
        q == RemoteCall(c1, "query", query)
    IN  IF ~Truthy(self.table_name)
        THEN Return(c, PyStr("Error: Table name not provided. Please set the table name before fetching data."))
        ELSE IF described /\ d.out.t = "raise"
        THEN Return(d.c, PyStr("Error retrieving fields for " \o table \o ": " \o d.out.text))
        ELSE IF q.out.t = "raise"
        THEN Return(q.c, PyStr("Error executing query: " \o q.out.text))
        ELSE Return(q.c, Drop(FromRecords(q.out.val), "attributes"))

fetch_data(c) ==
    LET self == c.self
        table == self.table_name.s
        d == RemoteCall(c, "describe", table)
        described == ~Truthy(self.fields)
        c1 == IF described THEN d.c ELSE c
        fields == IF described
                  THEN [i \in 1..Len(d.out.val.fields) |-> d.out.val.fields[i].name]
                  ELSE self.fields.l
        query == Query(fields, table)
        q == RemoteCall(c1, "query", query)
    IN  IF ~Truthy(self.table_name)
        THEN Return(c, PyStr("Error: Table name not provided. Please set the table name before fetching data."))
        ELSE IF described /\ d.out.t = "raise"
        THEN Return(d.c, PyStr("Error retrieving fields for " \o table \o ": " \o d.out.text))
        ELSE IF q.out.t = "raise"
        THEN Return(q.c, PyStr("Error executing query: " \o q.out.text))
        ELSE Return(q.c, Drop(FromRecords(q.out.val), "attributes"))

(***************************************************************************)
(* save_to_csv: defaults self.file_name to "<table_name>.csv" when it is   *)
(* not set, then writes the frame there, replacing the file.  A to_csv     *)
(* that raises leaves the file system as it was.                           *)
(***************************************************************************)
\* A write that opens the file for appending instead of replacing it.
WriteFile_Append(fs, path, content) ==
    [p \in DOMAIN fs \cup {path} |->
        IF p # path THEN fs[p]
        ELSE IF path \in DOMAIN fs THEN fs[p] \o content ELSE content]

WriteFile(fs, path, content) ==
    [p \in DOMAIN fs \cup {path} |-> IF p = path THEN content ELSE fs[p]]

save_to_csv(c, df) ==
    LET c1 == IF ~Truthy(c.self.file_name)
              THEN [c EXCEPT !.self.file_name = PyStr(c.self.table_name.s \o ".csv")]
              ELSE c
        path == c1.self.file_name.s
        resp == c.env.to_csv
    IN  IF resp = NotCalled THEN Block(c1, "to_csv")
        ELSE IF resp.t = "raise"
        THEN Return(Log(c1, Call("to_csv", 0, path, FALSE)),
                    PyStr("Error saving data to file: " \o resp.text))
        ELSE Return(Log([c1 EXCEPT !.files = WriteFile(@, path, ToCsv(df))],
                        Call("to_csv", 0, path, TRUE)),
                    PyStr("Data saved to " \o path))

(***************************************************************************)
(* fetch_and_save_data(table_name, fields, file_name): the whole run.      *)
(***************************************************************************)
\* fetch_and_save_data that falls back on the table name of an earlier run
\* when none is passed.
fetch_and_save_data_KeepsTable(c, args) ==
    LET s1 == IF Truthy(args.table_name)
              THEN [c.self EXCEPT !.table_name = args.table_name] ELSE c.self
        s2 == IF args.fields # PyNone THEN [s1 EXCEPT !.fields = args.fields] ELSE s1
        s3 == IF args.file_name # PyNone THEN [s2 EXCEPT !.file_name = args.file_name] ELSE s2
        error == load_credentials([c EXCEPT !.self = s3])
        connected == connect_to_salesforce(error.c)
        df == fetch_data(connected.c)
    IN  IF ~Truthy(s1.table_name)
        THEN Return(c, PyStr("Error: Please provide a table name for fetching data first."))
        ELSE IF Truthy(error.ret) THEN Return(error.c, error.ret)
        ELSE IF ~Truthy(connected.ret) THEN Return(connected.c, PyStr("Error connecting to Salesforce."))
        ELSE IF df.ret.t = "DataFrame" THEN save_to_csv(df.c, df.ret)
        ELSE Return(df.c, df.ret)

fetch_and_save_data(c, args) ==
    LET s1 == [c.self EXCEPT !.table_name = args.table_name]
        s2 == IF args.fields # PyNone THEN [s1 EXCEPT !.fields = args.fields] ELSE s1
        s3 == IF args.file_name # PyNone THEN [s2 EXCEPT !.file_name = args.file_name] ELSE s2
        error == load_credentials([c EXCEPT !.self = s3])
        connected == connect_to_salesforce(error.c)
        df == fetch_data(connected.c)
    IN  IF ~Truthy(args.table_name)
        THEN Return(c, PyStr("Error: Please provide a table name for fetching data first."))
        ELSE IF Truthy(error.ret) THEN Return(error.c, error.ret)
        ELSE IF ~Truthy(connected.ret) THEN Return(connected.c, PyStr("Error connecting to Salesforce."))
        ELSE IF df.ret.t = "DataFrame" THEN save_to_csv(df.c, df.ret)
        ELSE Return(df.c, df.ret)
(***************************************************************************)
(* The arguments a caller passes and the responses the collaborators give. *)
(***************************************************************************)
TableNames == {PyNone, PyStr(""), PyStr("Account"), PyStr("Contact")}
FieldLists == {PyNone, PyList(<<>>), PyList(<<"Id", "Name">>)}
FileNames == {PyNone, PyStr("out.csv")}
Args == [table_name : TableNames, fields : FieldLists, file_name : FileNames]

CredentialKeys == {"uname", "pwd", "sftoken"}
CredentialValue(k) ==
    CASE k = "uname" -> PyStr("user@example.com")
      [] k = "pwd" -> PyStr("secret")
      [] OTHER -> PyStr("token")
\* What yaml.safe_load can give: an empty document (None), a mapping without
\* the salesforce group, the group without content, the group with all
\* three keys or all but one.
Documents ==
    {PyNone, PyDict([k \in {} |-> PyNone]), PyDict([salesforce |-> PyNone])}
    \cup {PyDict([salesforce |-> PyDict([k \in K |-> CredentialValue(k)])]) :
            K \in {L \in SUBSET CredentialKeys : Cardinality(L) >= 2}}
ConfigResponses ==
    {Raise("FileNotFoundError", "[Errno 2] No such file or directory: 'config.yml'"),
     Raise("YAMLError", "mapping values are not allowed here"),
     Raise("PermissionError", "[Errno 13] Permission denied: 'config.yml'")}
    \cup {[t |-> "ok", doc |-> d] : d \in Documents}
AuthResponses == {Raise("SalesforceAuthenticationFailed", "INVALID_LOGIN"), Ok(PyNone)}
FieldDescription(name) == [name |-> name, type |-> "string"]
DescribeResponses ==
    {Raise("SalesforceResourceNotFound", "Resource Not Found"),
     Ok([fields |-> <<FieldDescription("Id")>>]),
     Ok([fields |-> <<FieldDescription("Name"), FieldDescription("Id")>>])}
QueryResponses ==
    {Raise("SalesforceMalformedRequest", "MALFORMED_QUERY"),
     Ok(<< << <<"attributes", "sobject">>, <<"Id", "001">>, <<"Name", "Acme">> >>,
           << <<"attributes", "sobject">>, <<"Id", "002">>, <<"Name", "Beta">> >> >>),
     Ok(<< << <<"attributes", "sobject">>, <<"Id", "003">> >> >>)}
WriteResponses == {Raise("PermissionError", "[Errno 13] Permission denied"), Ok(PyNone)}

ResponsesTo(what) ==
    CASE what = "config" -> ConfigResponses
      [] what = "auth" -> AuthResponses
      [] what = "describe" -> DescribeResponses
      [] what = "query" -> QueryResponses
      [] OTHER -> WriteResponses

NoResponses ==
    [config |-> NotCalled, auth |-> NotCalled, describe |-> NotCalled,
     query |-> NotCalled, to_csv |-> NotCalled]

\* The run of fetch_and_save_data(args) on instance s in the world (fs, nh)
\* when the collaborators respond as env says: the responses and the result.
RunOf(s, fs, nh, args, env) ==
    [env |-> env, r |-> fetch_and_save_data(Ctx(s, fs, nh, env), args)]

\* The collaborators respond to the calls the code makes: when the run
\* reaches a call without a response, every response to it is possible.
Draw(s, fs, nh, args, x) ==
    LET b == x.r.c.blocked
    IN  IF b = "" THEN {x}
        ELSE {RunOf(s, fs, nh, args, [x.env EXCEPT ![b] = v]) : v \in ResponsesTo(b)}

Drawn(s, fs, nh, args, X) == UNION {Draw(s, fs, nh, args, x) : x \in X}

\* The complete runs: a run makes at most five kinds of calls, each at most
\* once.
Runs(s, fs, nh, args) ==
    Drawn(s, fs, nh, args, Drawn(s, fs, nh, args, Drawn(s, fs, nh, args,
        Drawn(s, fs, nh, args, Drawn(s, fs, nh, args,
            {RunOf(s, fs, nh, args, NoResponses)})))))

(***************************************************************************)
(* State: the instance, the file system, the next handle id, the number of *)
(* runs made, and the record of the latest run: its arguments, the         *)
(* responses it got, what it returned, the calls it made, and whether it   *)
(* repeated the successful run right before it (same arguments, same       *)
(* response to every call both runs made).                                 *)
(***************************************************************************)
VARIABLES self, files, nextHandle, runs, run

\* The success message of save_to_csv.
IsSuccess(ret) == ret.t = "str" /\ StartsWith(ret.s, "Data saved to ")

ResponseKinds == {"config", "auth", "describe", "query", "to_csv"}

SameResponses(e1, e2) ==
    \A k \in ResponseKinds : e1[k] = NotCalled \/ e2[k] = NotCalled \/ e1[k] = e2[k]

vars == <<self, files, nextHandle, runs, run>>

NoRun ==
    [args |-> [table_name |-> PyNone, fields |-> PyNone, file_name |-> PyNone],
     env |-> NoResponses, ret |-> PyNone, calls |-> <<>>, repeat |-> FALSE]

Init ==
    /\ self = NewFetcher
    /\ files = NoFiles
    /\ nextHandle = 1
    /\ runs = 0
    /\ run = NoRun

FetchAndSaveData ==
    /\ runs < MaxRuns
    /\ \E args \in Args :
         \E x \in Runs(self, files, nextHandle, args) :
            LET r == x.r
                env == x.env
            IN  /\ self' = r.c.self
                /\ files' = r.c.files
                /\ nextHandle' = r.c.nextHandle
                /\ runs' = runs + 1
                /\ run' = [args |-> args, env |-> env, ret |-> r.ret, calls |-> r.c.calls,
                           repeat |-> /\ IsSuccess(run.ret)
                                      /\ args = run.args
                                      /\ SameResponses(run.env, env)]

Next == FetchAndSaveData

Spec == Init /\ [][Next]_vars

(***************************************************************************)
(* What the latest run did, read off its record.                           *)
(***************************************************************************)
Entries(op) == SelectSeq(run.calls, LAMBDA e : e.op = op)
Made(op) == Entries(op) # <<>>
Succeeded(op) == \E i \in 1..Len(run.calls) : run.calls[i].op = op /\ run.calls[i].ok
Failed(op) == \E i \in 1..Len(run.calls) : run.calls[i].op = op /\ ~run.calls[i].ok
\* Calls that reached the service (made on a handle).
Reached(op) == \E i \in 1..Len(run.calls) : run.calls[i].op = op /\ run.calls[i].handle # 0
IsError(ret) == ret.t = "str" /\ StartsWith(ret.s, "Error")

\* The parsed document holds the three credentials.
HasCredentials(doc) ==
    /\ doc.t = "dict"
    /\ "salesforce" \in DOMAIN doc.d
    /\ doc.d["salesforce"].t = "dict"
    /\ CredentialKeys \subseteq DOMAIN doc.d["salesforce"].d
ConfigRead == run.env.config # NotCalled
ConfigLoaded == ConfigRead /\ run.env.config.t = "ok" /\ HasCredentials(run.env.config.doc)
ConfigFailed == ConfigRead /\ ~ConfigLoaded

(***************************************************************************)
(* C1: fail-fast.  In every run, after a failed stage no later stage is    *)
(* attempted: no authenticate call after a config failure, no describe or  *)
(* query call on the service after an authentication failure, no file      *)
(* write after an authentication, describe or query failure.               *)
(***************************************************************************)
C1_FailFast ==
    /\ ConfigFailed =>
          ~Made("authenticate") /\ ~Made("describe") /\ ~Made("query") /\ ~Made("to_csv")
    /\ Failed("authenticate") =>
          ~Reached("describe") /\ ~Reached("query") /\ ~Made("to_csv")
    /\ Failed("describe") => ~Made("query") /\ ~Made("to_csv")
    /\ Failed("query") => ~Made("to_csv")

(***************************************************************************)
(* C2: whenever the authenticate call raises during a run, the run returns *)
(* a message containing "connecting to Salesforce" and writes no file.     *)
(***************************************************************************)
C2_AuthFailureReported ==
    Failed("authenticate") =>
        /\ run.ret.t = "str"
        /\ Contains(run.ret.s, "connecting to Salesforce")
        /\ ~Made("to_csv")

(***************************************************************************)
(* C3: a run called with an empty or absent table_name returns an error    *)
(* message and makes no collaborator call at all (no config read, no       *)
(* authenticate, no describe, no query, no write), whatever fields and     *)
(* file_name are and whatever earlier runs left on the instance.           *)
(***************************************************************************)
C3_NoTableNoCalls ==
    (runs > 0 /\ ~Truthy(run.args.table_name)) =>
        /\ run.calls = <<>>
        /\ run.env = NoResponses
        /\ IsError(run.ret)

\* A run without table_name on an instance an earlier run connected and
\* configured, with fields and file_name passed.
C3_Witness ==
    /\ runs = 2
    /\ ~Truthy(run.args.table_name)
    /\ run.args.fields # PyNone
    /\ run.args.file_name # PyNone
    /\ Truthy(self.table_name)
    /\ self.sf # PyNone
    /\ run.calls = <<>>

(***************************************************************************)
(* C4: the output path is resolved per run.  Every write of a run goes to  *)
(* the file_name passed to that run or, when none was passed, to           *)
(* "<table_name>.csv" for the table_name of that run.                      *)
(***************************************************************************)
C4_PathPerRun ==
    \A i \in 1..Len(run.calls) :
        run.calls[i].op = "to_csv" =>
            run.calls[i].arg = IF run.args.file_name # PyNone
                               THEN run.args.file_name.s
                               ELSE run.args.table_name.s \o ".csv"

(***************************************************************************)
(* C5: no state is shared across runs.  The outcome of every run (the      *)
(* message returned, the queries sent, the paths written and the content   *)
(* left there) equals the outcome of the same call on a freshly            *)
(* constructed instance that gets the same responses.                      *)
(***************************************************************************)
Queries(calls) == SelectSeq(calls, LAMBDA e : e.op = "query" /\ e.handle # 0)
Writes(calls, fs) ==
    LET w == SelectSeq(calls, LAMBDA e : e.op = "to_csv" /\ e.ok)
    IN  [i \in 1..Len(w) |-> <<w[i].arg, fs[w[i].arg]>>]
Outcome(ret, calls, fs) ==
    [ret |-> ret,
     queries |-> [i \in 1..Len(Queries(calls)) |-> Queries(calls)[i].arg],
     writes |-> Writes(calls, fs)]

C5_NoSharedState ==
    runs > 0 =>
        LET fresh == RunOf(NewFetcher, NoFiles, 1, run.args, run.env).r
        IN  fresh.c.blocked = "" =>
                Outcome(run.ret, run.calls, files) = Outcome(fresh.ret, fresh.c.calls, fresh.c.files)

(***************************************************************************)
(* C6: a run returns "Data saved to P" if and only if in that run the      *)
(* config load, the authentication and the query all succeeded and the     *)
(* result was written to P; in every other outcome it returns an error     *)
(* description and writes nothing.                                         *)
(***************************************************************************)
C6_SuccessIff ==
    runs > 0 =>
        LET allOk == /\ ConfigLoaded
                     /\ Succeeded("authenticate")
                     /\ Succeeded("query")
                     /\ Succeeded("to_csv")
        IN  /\ IsSuccess(run.ret) <=> allOk
            /\ IsSuccess(run.ret) =>
                  \E i \in 1..Len(run.calls) :
                      /\ run.calls[i].op = "to_csv" /\ run.calls[i].ok
                      /\ run.ret.s = "Data saved to " \o run.calls[i].arg
                      /\ run.calls[i].arg \in DOMAIN files
            /\ ~IsSuccess(run.ret) => IsError(run.ret) /\ ~Succeeded("to_csv")

(***************************************************************************)
(* C7: when the config file parses but a required credential is absent     *)
(* from the parsed structure (a key missing from the group, the group      *)
(* missing, an empty document), the run returns the missing-required-key   *)
(* error naming an absent key and does not attempt authentication.         *)
(***************************************************************************)
AbsentKeys(doc) ==
    IF doc.t = "dict" /\ "salesforce" \in DOMAIN doc.d /\ doc.d["salesforce"].t = "dict"
    THEN CredentialKeys \ DOMAIN doc.d["salesforce"].d
    ELSE {"salesforce"} \cup CredentialKeys

C7_MissingKeyReported ==
    (ConfigRead /\ run.env.config.t = "ok" /\ ~HasCredentials(run.env.config.doc)) =>
        /\ \E k \in AbsentKeys(run.env.config.doc) :
              run.ret = PyStr("Error: Missing required key in config file: '" \o k \o "'")
        /\ ~Made("authenticate")

(***************************************************************************)
(* C8: idempotence of a successful run.  A run that repeats the arguments  *)
(* of the successful run right before it and gets the same responses       *)
(* returns the same success message and leaves every file, the output file *)
(* included, with the content it had after the first of the two.           *)
(***************************************************************************)
C8_Idempotent ==
    [][(/\ IsSuccess(run.ret)
        /\ run'.args = run.args
        /\ SameResponses(run.env, run'.env)
        /\ runs' = runs + 1)
       => (run'.ret = run.ret /\ files' = files)]_vars

\* The second of two equal successful runs has written the file again.
C8_Witness ==
    /\ runs = 2
    /\ run.repeat
    /\ IsSuccess(run.ret)
    /\ Succeeded("to_csv")

(***************************************************************************)
(* C9: connection ownership.  Every describe and query call that reaches   *)
(* the service is made on the handle a successful authenticate call of the *)
(* same run created.                                                       *)
(***************************************************************************)
C9_OwnConnection ==
    \A i \in 1..Len(run.calls) :
        (run.calls[i].op \in {"describe", "query"} /\ run.calls[i].handle # 0) =>
            \E j \in 1..(i - 1) :
                /\ run.calls[j].op = "authenticate"
                /\ run.calls[j].ok
                /\ run.calls[j].handle = run.calls[i].handle

(***************************************************************************)
(* C10: field resolution in fetch_data.  With an empty field list in       *)
(* effect, fetch_data makes exactly one describe call for table_name and,  *)
(* when it returns, sends after it the one query "SELECT <names> FROM      *)
(* <table_name>" with the names describe returned, in its order; when      *)
(* describe fails no query is sent and the error names the table.  With a  *)
(* non-empty field list no describe call is made and the one query selects *)
(* the given fields in their order.                                        *)
(***************************************************************************)
Position(op) == CHOOSE i \in 1..Len(run.calls) : run.calls[i].op = op
DescribedNames ==
    [i \in 1..Len(run.env.describe.val.fields) |-> run.env.describe.val.fields[i].name]
\* "SELECT a, b FROM t", spelled out for lists of up to two names.
Select(names, table) ==
    IF Len(names) = 1 THEN "SELECT " \o names[1] \o " FROM " \o table
    ELSE "SELECT " \o names[1] \o ", " \o names[2] \o " FROM " \o table

====
